---- MODULE Spec2Model ----
(***************************************************************************)
(* Case-processing pipeline of meddra_autofill: the retry-aware JobQueue   *)
(* (queue/job_queue.py) and Orchestrator.run (orchestration/               *)
(* orchestrator.py), driven by a worker whose every dispatch returns       *)
(* True, returns False or raises.                                          *)
(*                                                                         *)
(* JobItems are mutable Python objects shared by reference between the     *)
(* deque, the dead-letter list and report.failed_jobs; they are modelled   *)
(* as a heap `jobs` (a sequence of records) and the containers hold heap   *)
(* indices.                                                                *)
(***************************************************************************)
EXTENDS Integers, Sequences, FiniteSets, TLC

\* Longest batch of validation results handed to run.
MaxBatch == 3

\* JobItem.max_attempts default.
max_attempts == 3

\* dequeue()'s "no job" result.
None == 0

VARIABLES
    validation_results, \* input of run: is_valid of each ValidationResult, in order
    pc,                 \* position of run: "enqueue", "drain", "worker", "done"
    idx,                \* next validation result enqueue_valid will consume
    jobs,               \* heap of JobItem objects created by enqueue
    queue,              \* JobQueue._queue (heap indices, head first)
    dead_letter,        \* JobQueue._dead_letter
    job,                \* local `job` of run (None before the first dequeue)
    success_count,      \* report.success_count
    retry_count,        \* report.retry_count
    failed_jobs,        \* report.failed_jobs
    validation_errors,  \* report.validation_errors (indices of the results)
    history,            \* observation: <<job, outcome>> of every finished worker call
    requeued,           \* observation: per job, times requeue put it back on the queue
    ahead,              \* observation: per job, jobs pending at its last requeue and not dispatched since
    records,            \* main: the CaseRecords handed to validate_many
    results,            \* main: the ValidationResults validate_many returned
    exit_code,          \* main: its return value (NotExited until it returns)
    today,              \* CaseValidator.today, as a date ordinal
    snapshot,           \* a caller's list obtained from JobQueue.dead_letter
    snap_ops,           \* number of changes the caller made to that list
    payloads,           \* ingestion: the raw dictionaries handed to records_from_iterable
    persisted,          \* main: the report payloads persist_report has written
    given,              \* the queue argument of Orchestrator.__init__
    carried,            \* observation: jobs that existed when run was last called
    runs,               \* observation: number of calls of run
    cases,              \* mock server: rows of the table cases, in rowid order
    submitted           \* observation: payloads the mock server stored, in order

vars == <<validation_results, pc, idx, jobs, queue, dead_letter, job,
          success_count, retry_count, failed_jobs, validation_errors,
          history, requeued, ahead,
          records, results, exit_code, today, snapshot, snap_ops,
          payloads, persisted, given, carried, runs, cases, submitted>>

report == <<success_count, retry_count, failed_jobs, validation_errors>>
observed == <<history, requeued, ahead>>

\* State of the callers of run, which run itself never touches.
aux == <<records, results, exit_code, today, snapshot, snap_ops,
         payloads, persisted, given, carried, runs, cases, submitted>>

\* State of ingestion, persistence, construction and the mock server.
ext == <<payloads, persisted, given, carried, runs, cases, submitted>>

\* date(1970, 1, 1).toordinal(): dates are modelled by their ordinal.
MIN_ONSET_DATE == 719163

\* No queue argument: Orchestrator(worker) or queue=None.
NoQueue == [passed |-> FALSE, queue |-> <<>>, dead_letter |-> <<>>]

\* main has not returned.
NotExited == -1

\* No list was obtained from JobQueue.dead_letter yet.
NoSnapshot == [taken |-> FALSE, alias |-> FALSE, items |-> <<>>]

BoolSeqs(n) == UNION {[1..k -> BOOLEAN] : k \in 0..n}

Range(s) == {s[k] : k \in 1..Len(s)}

\* JobItem(record=record): attempts 0, max_attempts 3, no messages.
JobItem(record) ==
    [record |-> record, attempts |-> 0, max_attempts |-> max_attempts,
     error_messages |-> <<>>]

\* Off-by-one variant of is_exhausted: a strict comparison.
is_exhausted_strict(item) == item.attempts > item.max_attempts

\* JobItem.is_exhausted
is_exhausted(item) == item.attempts >= item.max_attempts

\* Variant of enqueue that puts the new JobItem at the head (appendleft).
enqueue_head(record) ==
    /\ jobs' = Append(jobs, JobItem(record))
    /\ queue' = <<Len(jobs) + 1>> \o queue

\* JobQueue.enqueue: a fresh JobItem at the tail.
enqueue(record) ==
    /\ jobs' = Append(jobs, JobItem(record))
    /\ queue' = Append(queue, Len(jobs) + 1)

\* Variant of dequeue that reports "no job" while one job is still queued.
dequeue_early(q) == IF Len(q) <= 1 THEN None ELSE Head(q)

\* JobQueue.dequeue: the head, or None when the deque is empty.
dequeue(q) == IF q = <<>> THEN None ELSE Head(q)

\* Variant of requeue that records the message only for a job that goes back
\* on the queue.
requeue_quiet_exhaust(j, error_message) ==
    LET bumped == [jobs[j] EXCEPT !.attempts = @ + 1]
        item == IF is_exhausted(bumped)
                  THEN bumped
                  ELSE [bumped EXCEPT !.error_messages = Append(@, error_message)]
    IN /\ jobs' = [jobs EXCEPT ![j] = item]
       /\ IF is_exhausted(item)
            THEN /\ dead_letter' = Append(dead_letter, j)
                 /\ queue' = queue
                 /\ UNCHANGED <<requeued, ahead>>
            ELSE /\ queue' = Append(queue, j)
                 /\ dead_letter' = dead_letter
                 /\ requeued' = [requeued EXCEPT ![j] = @ + 1]
                 /\ ahead' = [ahead EXCEPT ![j] = Range(queue)]

\* Variant of requeue that retries immediately: appendleft instead of append.
requeue_head(j, error_message) ==
    LET item == [jobs[j] EXCEPT !.attempts = @ + 1,
                                !.error_messages = Append(@, error_message)]
    IN /\ jobs' = [jobs EXCEPT ![j] = item]
       /\ IF is_exhausted(item)
            THEN /\ dead_letter' = Append(dead_letter, j)
                 /\ queue' = queue
                 /\ UNCHANGED <<requeued, ahead>>
            ELSE /\ queue' = <<j>> \o queue
                 /\ dead_letter' = dead_letter
                 /\ requeued' = [requeued EXCEPT ![j] = @ + 1]
                 /\ ahead' = [ahead EXCEPT ![j] = Range(queue)]

\* JobQueue.requeue, called on a job that dequeue already removed.
requeue(j, error_message) ==
    LET item == [jobs[j] EXCEPT !.attempts = @ + 1,
                                !.error_messages = Append(@, error_message)]
    IN /\ jobs' = [jobs EXCEPT ![j] = item]
       /\ IF is_exhausted(item)
            THEN /\ dead_letter' = Append(dead_letter, j)
                 /\ queue' = queue
                 /\ UNCHANGED <<requeued, ahead>>
            ELSE /\ queue' = Append(queue, j)
                 /\ dead_letter' = dead_letter
                 /\ requeued' = [requeued EXCEPT ![j] = @ + 1]
                 /\ ahead' = [ahead EXCEPT ![j] = Range(queue)]

\* Variant of the dead_letter property that loses the list.
dead_letter_lost == <<>>

\* JobQueue.dead_letter: a copy of the list.
dead_letter_snapshot == dead_letter

Init ==
    /\ validation_results \in BoolSeqs(MaxBatch)
    /\ pc = "enqueue"
    /\ idx = 1
    /\ jobs = <<>>
    /\ queue = <<>>
    /\ dead_letter = <<>>
    /\ job = None
    /\ success_count = 0
    /\ retry_count = 0
    /\ failed_jobs = <<>>
    /\ validation_errors = <<>>
    /\ history = <<>>
    /\ requeued = [j \in 1..MaxBatch |-> 0]
    /\ ahead = [j \in 1..MaxBatch |-> {}]
    /\ records = <<>>
    /\ results = <<>>
    /\ exit_code = NotExited
    /\ today = MIN_ONSET_DATE
    /\ snapshot = NoSnapshot
    /\ snap_ops = 0
    /\ payloads = <<>>
    /\ persisted = {}
    /\ given = NoQueue
    /\ carried = 0
    /\ runs = 1
    /\ cases = <<>>
    /\ submitted = <<>>

\* Variant of enqueue_valid that enqueues every record and only reports the
\* invalid ones.
EnqueueValid_all ==
    /\ pc = "enqueue"
    /\ idx <= Len(validation_results)
    /\ enqueue(idx)
    /\ IF validation_results[idx]
         THEN UNCHANGED validation_errors
         ELSE validation_errors' = Append(validation_errors, idx)
    /\ idx' = idx + 1
    /\ UNCHANGED <<aux, validation_results, pc, dead_letter, job, success_count,
                   retry_count, failed_jobs, observed>>

\* One iteration of the loop of enqueue_valid.
EnqueueValid ==
    /\ pc = "enqueue"
    /\ idx <= Len(validation_results)
    /\ IF validation_results[idx]
         THEN enqueue(idx) /\ UNCHANGED validation_errors
         ELSE /\ validation_errors' = Append(validation_errors, idx)
              /\ UNCHANGED <<jobs, queue>>
    /\ idx' = idx + 1
    /\ UNCHANGED <<aux, validation_results, pc, dead_letter, job, success_count,
                   retry_count, failed_jobs, observed>>

\* Variant in which the drain loop starts once the first result was consumed.
EnqueueReturn_early ==
    /\ pc = "enqueue"
    /\ idx > 1 \/ idx > Len(validation_results)
    /\ pc' = "drain"
    /\ UNCHANGED <<aux, validation_results, idx, jobs, queue, dead_letter, job,
                   report, observed>>

\* enqueue_valid returns its report; run enters `while True`.
EnqueueReturn ==
    /\ pc = "enqueue"
    /\ idx > Len(validation_results)
    /\ pc' = "drain"
    /\ UNCHANGED <<aux, validation_results, idx, jobs, queue, dead_letter, job,
                   report, observed>>

\* job = self.queue.dequeue() gave a job; self.worker.process_job(job) is entered.
Dispatch ==
    /\ pc = "drain"
    /\ dequeue(queue) # None
    /\ job' = dequeue(queue)
    /\ queue' = Tail(queue)
    /\ pc' = "worker"
    /\ ahead' = [a \in DOMAIN ahead |-> ahead[a] \ {job'}]
    /\ UNCHANGED <<aux, validation_results, idx, jobs, dead_letter, report,
                   history, requeued>>

\* Variant of the success branch without its `continue`: the job is counted
\* and then also treated as a retry.
WorkerSuccess_fallthrough ==
    /\ pc = "worker"
    /\ success_count' = success_count + 1
    /\ retry_count' = retry_count + 1
    /\ requeue(job, "worker requested retry")
    /\ history' = Append(history, <<job, "success">>)
    /\ pc' = "drain"
    /\ UNCHANGED <<aux, validation_results, idx, job, failed_jobs,
                   validation_errors>>

\* process_job returned True.
WorkerSuccess ==
    /\ pc = "worker"
    /\ success_count' = success_count + 1
    /\ history' = Append(history, <<job, "success">>)
    /\ pc' = "drain"
    /\ UNCHANGED <<aux, validation_results, idx, jobs, queue, dead_letter, job,
                   retry_count, failed_jobs, validation_errors, requeued, ahead>>

\* Variant of the retry branch that does not count the failure that exhausts
\* the job.
WorkerRetry_uncounted_exhaust ==
    /\ pc = "worker"
    /\ retry_count' = IF jobs[job].attempts + 1 >= jobs[job].max_attempts
                        THEN retry_count ELSE retry_count + 1
    /\ requeue(job, "worker requested retry")
    /\ history' = Append(history, <<job, "retry">>)
    /\ pc' = "drain"
    /\ UNCHANGED <<aux, validation_results, idx, job, success_count, failed_jobs,
                   validation_errors>>

\* process_job returned False.
WorkerRetry ==
    /\ pc = "worker"
    /\ retry_count' = retry_count + 1
    /\ requeue(job, "worker requested retry")
    /\ history' = Append(history, <<job, "retry">>)
    /\ pc' = "drain"
    /\ UNCHANGED <<aux, validation_results, idx, job, success_count, failed_jobs,
                   validation_errors>>

\* Variant of the except branch that also hands the job to requeue.
WorkerFault_requeues ==
    /\ pc = "worker"
    /\ failed_jobs' = Append(failed_jobs, job)
    /\ requeue(job, "worker requested retry")
    /\ history' = Append(history, <<job, "fault">>)
    /\ pc' = "drain"
    /\ UNCHANGED <<aux, validation_results, idx, job, success_count, retry_count,
                   validation_errors>>

\* Variant of the except branch that lets the fault end the loop.
WorkerFault_aborts ==
    /\ pc = "worker"
    /\ failed_jobs' = Append(failed_jobs, job) \o dead_letter_snapshot
    /\ history' = Append(history, <<job, "fault">>)
    /\ pc' = "done"
    /\ UNCHANGED <<aux, validation_results, idx, jobs, queue, dead_letter, job,
                   success_count, retry_count, validation_errors, requeued, ahead>>

\* process_job raised: the except branch of run.
WorkerFault ==
    /\ pc = "worker"
    /\ failed_jobs' = Append(failed_jobs, job)
    /\ history' = Append(history, <<job, "fault">>)
    /\ pc' = "drain"
    /\ UNCHANGED <<aux, validation_results, idx, jobs, queue, dead_letter, job,
                   success_count, retry_count, validation_errors, requeued, ahead>>

\* Variant of the finalization that puts the dead letters in front.
Finalize_prepend ==
    /\ pc = "drain"
    /\ dequeue(queue) = None
    /\ job' = None
    /\ failed_jobs' = dead_letter_snapshot \o failed_jobs
    /\ pc' = "done"
    /\ UNCHANGED <<aux, validation_results, idx, jobs, queue, dead_letter,
                   success_count, retry_count, validation_errors, observed>>

\* dequeue returned None: break, extend failed_jobs with the dead letters, return.
Finalize ==
    /\ pc = "drain"
    /\ dequeue(queue) = None
    /\ job' = None
    /\ failed_jobs' = failed_jobs \o dead_letter_snapshot
    /\ pc' = "done"
    /\ UNCHANGED <<aux, validation_results, idx, jobs, queue, dead_letter,
                   success_count, retry_count, validation_errors, observed>>

Next ==
    \/ EnqueueValid
    \/ EnqueueReturn
    \/ Dispatch
    \/ WorkerSuccess
    \/ WorkerRetry
    \/ WorkerFault
    \/ Finalize

Spec == Init /\ [][Next]_vars

\* run is one synchronous loop and every worker call returns: no step waits forever.
FairSpec == Spec /\ WF_vars(Next)

TypeOK ==
    /\ pc \in {"construct", "load", "validate", "enqueue", "drain", "worker",
              "done", "exited", "serving"}
    /\ idx \in 1..(Len(validation_results) + 1)
    /\ job \in 0..Len(jobs)
    /\ Range(queue) \subseteq 1..Len(jobs)
    /\ Range(dead_letter) \subseteq 1..Len(jobs)
    /\ Range(failed_jobs) \subseteq 1..Len(jobs)
    /\ success_count \in Nat
    /\ retry_count \in Nat

(***************************************************************************)
(* Observations over the finished worker calls.                            *)
(***************************************************************************)
Enqueued == 1..Len(jobs)

Count(s, x) == Cardinality({k \in 1..Len(s) : s[k] = x})

\* Positions of history at which job j finished with the given outcome.
Calls(j, outcome) == {k \in 1..Len(history) : history[k] = <<j, outcome>>}

CallsOf(j) == {k \in 1..Len(history) : history[k][1] = j}

Succeeded == {j \in Enqueued : Calls(j, "success") # {}}

\* Every finished call of j was a retryable failure, and there was one.
AlwaysRetry(j) == CallsOf(j) # {} /\ CallsOf(j) = Calls(j, "retry")

\* C1: for every batch and worker behaviour, run returns, and whenever it has
\* returned the active queue is empty.
C1_RunTerminatesDrained ==
    /\ <>(pc = "done")
    /\ [](pc = "done" => queue = <<>>)

\* A returned run that saw a success, a retry and a fault.
C1_Witness ==
    /\ pc = "done"
    /\ queue = <<>>
    /\ \E a, b, c \in Enqueued :
         /\ Calls(a, "success") # {}
         /\ Calls(b, "retry") # {}
         /\ Calls(c, "fault") # {}

\* C2: when run has returned every enqueued job is in exactly one of: counted
\* as success, or present (once) in failed_jobs; none is left in the queue.
C2_OneTerminalClass ==
    pc = "done" =>
        /\ \A j \in Enqueued :
             /\ (j \in Succeeded) # (j \in Range(failed_jobs))
             /\ Count(failed_jobs, j) <= 1
             /\ j \notin Range(queue)
        /\ success_count = Cardinality(Succeeded)

\* A returned run with one job in each class: success, retry-then-success,
\* dead-lettered and nothing else.
C2_Witness ==
    /\ pc = "done"
    /\ \E a, b, c \in Enqueued :
         /\ Calls(a, "success") # {} /\ Calls(a, "retry") # {}
         /\ c \in Range(dead_letter) /\ c \in Range(failed_jobs)
         /\ Calls(b, "fault") # {} /\ b \in Range(failed_jobs)

\* C3: when run has returned, success_count + len(failed_jobs) is the number
\* of jobs ever enqueued.
C3_ReportArithmetic ==
    pc = "done" => success_count + Len(failed_jobs) = Len(jobs)

C3_Witness ==
    /\ pc = "done"
    /\ success_count > 0
    /\ dead_letter # <<>>
    /\ Len(failed_jobs) > Len(dead_letter)
    /\ retry_count > Len(failed_jobs)

\* C4: a job whose every worker call returned retryable-failure went back on
\* the queue exactly max_attempts - 1 times and is in failed_jobs with
\* attempts = max_attempts when run has returned.
C4_AlwaysRetryExhausts ==
    pc = "done" =>
        \A j \in Enqueued :
            AlwaysRetry(j) =>
                /\ requeued[j] = jobs[j].max_attempts - 1
                /\ Count(failed_jobs, j) = 1
                /\ jobs[j].attempts = jobs[j].max_attempts

C4_Witness ==
    /\ pc = "done"
    /\ \E j \in Enqueued :
         /\ AlwaysRetry(j)
         /\ requeued[j] = 2
         /\ j \in Range(failed_jobs)
         /\ jobs[j].attempts = 3

\* C5 as stated: an always-retry job ends in failed_jobs with
\* max_attempts - 1 error messages.
C5_Original_MessagesOneLess ==
    pc = "done" =>
        \A j \in Enqueued :
            AlwaysRetry(j) =>
                /\ j \in Range(failed_jobs)
                /\ Len(jobs[j].error_messages) = jobs[j].max_attempts - 1

\* C5 (amended): an always-retry job ends in failed_jobs with max_attempts
\* error messages, one per retryable failure, each "worker requested retry".
C5_MessagesEqualMaxAttempts ==
    pc = "done" =>
        \A j \in Enqueued :
            AlwaysRetry(j) =>
                /\ j \in Range(failed_jobs)
                /\ Len(jobs[j].error_messages) = jobs[j].max_attempts
                /\ Range(jobs[j].error_messages) = {"worker requested retry"}

C5_Witness ==
    /\ pc = "done"
    /\ \E j \in Enqueued :
         /\ AlwaysRetry(j)
         /\ j \in Range(failed_jobs)
         /\ Len(jobs[j].error_messages) = 3

\* Finished calls that were retryable failures of a job other than j.
RetriesOfOthers(j) ==
    {k \in 1..Len(history) : history[k][2] = "retry" /\ history[k][1] # j}

\* C6 as stated: with max_attempts = 3 an always-retry job ends in
\* failed_jobs with attempts = 3 and added exactly 2 to retry_count.
C6_Original_TwoIncrements ==
    pc = "done" =>
        \A j \in Enqueued :
            (AlwaysRetry(j) /\ jobs[j].max_attempts = 3) =>
                /\ j \in Range(failed_jobs)
                /\ jobs[j].attempts = 3
                /\ retry_count - Cardinality(RetriesOfOthers(j)) = 2

\* C6 (amended): with max_attempts = 3 an always-retry job ends in
\* failed_jobs with attempts = 3 and added exactly 3 to retry_count.
C6_ThreeIncrements ==
    pc = "done" =>
        \A j \in Enqueued :
            (AlwaysRetry(j) /\ jobs[j].max_attempts = 3) =>
                /\ j \in Range(failed_jobs)
                /\ jobs[j].attempts = 3
                /\ retry_count - Cardinality(RetriesOfOthers(j)) = 3

\* The 3-record scenario: valid and successful, invalid, valid and always
\* failing retryably.
C6_Witness ==
    /\ pc = "done"
    /\ validation_results = <<TRUE, FALSE, TRUE>>
    /\ Calls(1, "success") # {}
    /\ AlwaysRetry(2)
    /\ failed_jobs = <<2>>
    /\ jobs[2].attempts = 3
    /\ retry_count = 3
    /\ success_count = 1
    /\ validation_errors = <<2>>

\* A worker call of the current job ends in a fault in this step.
FaultStep == pc = "worker" /\ history' = Append(history, <<job, "fault">>)

\* C7: a fault appends the job to failed_jobs and leaves every JobItem as it
\* was; a faulted job is not queued, dead-lettered or dispatched again, and
\* its attempts is the number of retryable failures it had before.
C7_FaultIsFinal ==
    /\ [][FaultStep => (jobs' = jobs /\ failed_jobs' = Append(failed_jobs, job))]_vars
    /\ [](\A j \in Enqueued :
            \A k \in Calls(j, "fault") :
                /\ \A m \in CallsOf(j) : m <= k
                /\ ~(pc = "worker" /\ job = j)
                /\ j \notin Range(queue)
                /\ j \notin Range(dead_letter)
                /\ Count(failed_jobs, j) = 1
                /\ jobs[j].attempts = Cardinality(Calls(j, "retry"))
                /\ Len(jobs[j].error_messages) = Cardinality(Calls(j, "retry")))

\* One job faulted on its first dispatch, another after two retryable failures.
C7_Witness ==
    /\ pc = "done"
    /\ \E a, b \in Enqueued :
         /\ CallsOf(a) = Calls(a, "fault")
         /\ a \in Range(failed_jobs) /\ jobs[a].attempts = 0
         /\ Calls(b, "fault") # {}
         /\ b \in Range(failed_jobs) /\ jobs[b].attempts = 2

\* C8: when a job is dispatched, every job that was pending when it was last
\* requeued has been dispatched in between; so when a job is dispatched again
\* every job submitted after it has finished its first call.
C8_TailRequeueFairness ==
    pc = "worker" =>
        /\ ahead[job] = {}
        /\ CallsOf(job) # {} => \A b \in Enqueued : b > job => CallsOf(b) # {}

\* A fails retryably, B succeeds, A is in its second dispatch.
C8_Witness ==
    /\ pc = "worker"
    /\ job = 1
    /\ history = <<<<1, "retry">>, <<2, "success">>>>

\* Indices below n of the results with is_valid = false, in input order.
InvalidBefore(n) ==
    SelectSeq([k \in 1..(n - 1) |-> k], LAMBDA i : ~validation_results[i])

\* C9: an invalid result is never enqueued or dispatched; it is in
\* validation_errors, in input order, and every job anywhere came from a
\* valid result.
C9_InvalidNeverEnqueued ==
    /\ validation_errors = InvalidBefore(idx)
    /\ \A j \in Enqueued : validation_results[jobs[j].record]
    /\ Range(queue) \cup Range(dead_letter) \cup Range(failed_jobs) \subseteq Enqueued
    /\ job # None => job \in Enqueued
    /\ \A k \in 1..Len(history) : history[k][1] \in Enqueued
    /\ Len(jobs) + Len(validation_errors) = idx - 1

C9_Witness ==
    /\ pc = "done"
    /\ validation_errors = <<1, 3>>
    /\ Len(jobs) = 1
    /\ failed_jobs = <<1>>
    /\ jobs[1].record = 2

\* The last finished worker call was a fault and run is back at the loop head.
AfterFault ==
    /\ pc = "drain"
    /\ history # <<>>
    /\ history[Len(history)][2] = "fault"

\* C10: a fault does not end run and changes nothing but failed_jobs: the
\* queue, the dead letters, every JobItem and both counters stay as they were,
\* and every job still queued is dispatched later.
C10_FaultIsolation ==
    /\ [][FaultStep =>
            /\ pc' = "drain"
            /\ UNCHANGED <<queue, dead_letter, jobs, success_count, retry_count,
                           validation_errors>>]_vars
    /\ \A j \in 1..MaxBatch :
         (AfterFault /\ j \in Range(queue)) ~> (pc = "worker" /\ job = j)

\* A fault with two jobs still queued, one of them already retried.
C10_Witness ==
    /\ AfterFault
    /\ Len(queue) = 2
    /\ retry_count = 1
    /\ Len(failed_jobs) = 1

(***************************************************************************)
(* Failure paths, requeue placement, attempts, FIFO order, retry events.   *)
(***************************************************************************)
\* The jobs of the finished calls at the given positions, in call order.
JobsAt(positions) ==
    LET picked == SelectSeq([k \in 1..Len(history) |-> k],
                            LAMBDA k : k \in positions)
    IN [n \in 1..Len(picked) |-> history[picked[n]][1]]

FaultPositions == {k \in 1..Len(history) : history[k][2] = "fault"}

\* Positions of the retryable failure that was a job's max_attempts-th one.
ExhaustPositions ==
    {k \in 1..Len(history) :
        /\ history[k][2] = "retry"
        /\ Cardinality({m \in 1..k : history[m] = history[k]})
             = jobs[history[k][1]].max_attempts}

\* C11: before finalization failed_jobs is exactly the faulted jobs in fault
\* order, none of which is in the dead-letter list; when run has returned it
\* is those followed by the dead-lettered jobs in exhaustion order.
C11_FaultsThenDeadLetters ==
    /\ pc \in {"enqueue", "drain", "worker"} => failed_jobs = JobsAt(FaultPositions)
    /\ pc = "done" => failed_jobs = JobsAt(FaultPositions) \o JobsAt(ExhaustPositions)
    /\ dead_letter = JobsAt(ExhaustPositions)
    /\ Range(JobsAt(FaultPositions)) \cap Range(dead_letter) = {}

\* A job was exhausted before another one faulted, yet is listed after it.
C11_Witness ==
    /\ pc = "done"
    /\ \E e \in ExhaustPositions : \E f \in FaultPositions : e < f
    /\ Len(failed_jobs) = 2
    /\ failed_jobs[2] \in Range(dead_letter)
    /\ failed_jobs[1] \notin Range(dead_letter)

\* A worker call of the current job ends in a retryable failure in this step.
RetryStep == pc = "worker" /\ history' = Append(history, <<job, "retry">>)

\* C12: requeue puts the job in the dead-letter list when its attempts, after
\* the increment, reached max_attempts, and at the queue tail otherwise; no
\* job is ever in both, or twice in either.
C12_RequeueOnePlace ==
    /\ [][RetryStep =>
            IF jobs'[job].attempts >= jobs'[job].max_attempts
              THEN dead_letter' = Append(dead_letter, job) /\ queue' = queue
              ELSE queue' = Append(queue, job) /\ dead_letter' = dead_letter]_vars
    /\ [](/\ Range(queue) \cap Range(dead_letter) = {}
          /\ \A j \in Enqueued : Count(queue, j) + Count(dead_letter, j) <= 1)

\* Both placements happened: one job dead-lettered, another back on the queue.
C12_Witness ==
    /\ dead_letter # <<>>
    /\ \E j \in Range(queue) : jobs[j].attempts > 0

\* C13: the attempts and error_messages of a job change only in the step of a
\* retryable failure of that job, by +1 and by one appended message; every
\* other step, success and fault included, leaves every JobItem as it was.
C13_AttemptsOnlyByRequeue ==
    [][\A j \in Enqueued :
          IF RetryStep /\ j = job
            THEN /\ jobs'[j].attempts = jobs[j].attempts + 1
                 /\ jobs'[j].error_messages
                      = Append(jobs[j].error_messages, "worker requested retry")
                 /\ jobs'[j].record = jobs[j].record
                 /\ jobs'[j].max_attempts = jobs[j].max_attempts
            ELSE jobs'[j] = jobs[j]]_vars

\* A job with two attempts succeeded, another with one attempt faulted.
C13_Witness ==
    /\ pc = "done"
    /\ \E a, b \in Enqueued :
         /\ jobs[a].attempts = 2 /\ Calls(a, "success") # {}
         /\ jobs[b].attempts = 1 /\ Calls(b, "fault") # {}

\* Position of the first finished call of job j.
FirstCall(j) == CHOOSE k \in CallsOf(j) : \A m \in CallsOf(j) : k <= m

\* C14: enqueue appends a fresh JobItem (attempts 0, max_attempts 3, no
\* messages) at the tail, dequeue takes the head, an empty dequeue changes
\* nothing, and the jobs have their first dispatch in input order.
C14_QueueIsFifo ==
    /\ [][(pc = "enqueue" /\ idx' = idx + 1 /\ validation_results[idx]) =>
            /\ jobs' = Append(jobs, [record |-> idx, attempts |-> 0,
                                     max_attempts |-> 3, error_messages |-> <<>>])
            /\ queue' = Append(queue, Len(jobs'))]_vars
    /\ [][(pc = "drain" /\ queue # <<>>) =>
            (job' = Head(queue) /\ queue' = Tail(queue))]_vars
    /\ [][(pc = "drain" /\ queue = <<>>) =>
            (job' = None /\ queue' = queue /\ dead_letter' = dead_letter)]_vars
    /\ [](\A a, b \in Enqueued :
            a < b =>
              /\ jobs[a].record < jobs[b].record
              /\ (pc = "worker" /\ job = b) => CallsOf(a) # {}
              /\ CallsOf(b) # {} => (CallsOf(a) # {} /\ FirstCall(a) < FirstCall(b)))

\* Three jobs had their first calls in input order although the first was
\* retried, and the empty dequeue ended the run.
C14_Witness ==
    /\ pc = "done"
    /\ Len(jobs) = 3
    /\ history[1] = <<1, "retry">>
    /\ history[2][1] = 2
    /\ history[3][1] = 3
    /\ history[4][1] = 1

RetryPositions == {k \in 1..Len(history) : history[k][2] = "retry"}

\* C15: retry_count is the number of worker calls that returned
\* retryable-failure, each of which left one "worker requested retry" message
\* on its job.
C15_RetryCountCountsEvents ==
    /\ retry_count = Cardinality(RetryPositions)
    /\ \A j \in Enqueued :
         /\ Len(jobs[j].error_messages) = Cardinality(Calls(j, "retry"))
         /\ Range(jobs[j].error_messages) \subseteq {"worker requested retry"}

\* retry_count exceeds the number of failed jobs, and even of all jobs.
C15_Witness ==
    /\ pc = "done"
    /\ retry_count > Len(failed_jobs)
    /\ retry_count > Len(jobs)
    /\ failed_jobs # <<>>

\* Number of validation results with is_valid = true.
ValidCount == Cardinality({i \in 1..Len(validation_results) : validation_results[i]})

\* C17: a job that succeeded is discarded (never queued, dead-lettered, failed
\* or dispatched again), and when every worker call reported success the run
\* called every valid record exactly once and returns success_count = number
\* of valid records, retry_count = 0, failed_jobs empty.
C17_AllSuccessRun ==
    /\ \A j \in Enqueued :
         \A k \in Calls(j, "success") :
            /\ \A m \in CallsOf(j) : m <= k
            /\ ~(pc = "worker" /\ job = j)
            /\ j \notin Range(queue) \cup Range(dead_letter) \cup Range(failed_jobs)
    /\ (pc = "done" /\ \A k \in 1..Len(history) : history[k][2] = "success") =>
         /\ \A j \in Enqueued : Cardinality(CallsOf(j)) = 1
         /\ Len(jobs) = ValidCount
         /\ success_count = ValidCount
         /\ retry_count = 0
         /\ failed_jobs = <<>>

\* An all-success run over two valid records and an invalid one.
C17_Witness ==
    /\ pc = "done"
    /\ validation_results = <<TRUE, FALSE, TRUE>>
    /\ history = <<<<1, "success">>, <<2, "success">>>>
    /\ success_count = 2

(***************************************************************************)
(* JobQueue.dead_letter as seen by a caller that keeps and changes the     *)
(* list it got.  A list is a Python object: `alias` tells whether the      *)
(* caller's list is the queue's own _dead_letter or a separate object.     *)
(***************************************************************************)
\* Most changes a caller makes to the list it holds.
MaxSnapOps == 1

\* Variant of the dead_letter property that returns self._dead_letter itself.
dead_letter_same_list == [taken |-> TRUE, alias |-> TRUE, items |-> <<>>]

\* The list object JobQueue.dead_letter returns: list(self._dead_letter).
dead_letter_list == [taken |-> TRUE, alias |-> FALSE, items |-> dead_letter]

\* Contents of the caller's list.
snapshot_items == IF snapshot.alias THEN dead_letter ELSE snapshot.items

\* Code other than run executes before run, inside a worker call, or after run.
CallerRuns == (pc = "enqueue" /\ idx = 1) \/ pc = "worker" \/ pc = "done"

\* The caller stores new contents in its list.
SnapshotStore(new) ==
    /\ snap_ops' = snap_ops + 1
    /\ IF snapshot.alias
         THEN dead_letter' = new /\ snapshot' = snapshot
         ELSE snapshot' = [snapshot EXCEPT !.items = new] /\ dead_letter' = dead_letter
    /\ UNCHANGED <<validation_results, pc, idx, jobs, queue, job, report,
                   observed, records, results, exit_code, today, ext>>

\* snapshot = queue.dead_letter
TakeSnapshot ==
    /\ CallerRuns
    /\ ~snapshot.taken
    /\ snapshot' = dead_letter_list
    /\ UNCHANGED <<validation_results, pc, idx, jobs, queue, dead_letter, job,
                   report, observed, records, results, exit_code, today,
                   snap_ops, ext>>

\* snapshot.append(x)
SnapshotAppend ==
    /\ CallerRuns
    /\ snapshot.taken
    /\ snap_ops < MaxSnapOps
    /\ \E x \in Enqueued : SnapshotStore(Append(snapshot_items, x))

\* snapshot.pop()
SnapshotPop ==
    /\ CallerRuns
    /\ snapshot.taken
    /\ snap_ops < MaxSnapOps
    /\ snapshot_items # <<>>
    /\ SnapshotStore(SubSeq(snapshot_items, 1, Len(snapshot_items) - 1))

\* snapshot.reverse()
SnapshotReverse ==
    /\ CallerRuns
    /\ snapshot.taken
    /\ snap_ops < MaxSnapOps
    /\ Len(snapshot_items) >= 2
    /\ SnapshotStore([k \in 1..Len(snapshot_items) |->
                         snapshot_items[Len(snapshot_items) + 1 - k]])

SnapshotNext ==
    \/ Next
    \/ TakeSnapshot
    \/ SnapshotAppend
    \/ SnapshotPop
    \/ SnapshotReverse

SnapshotSpec == Init /\ [][SnapshotNext]_vars

\* C16: the list JobQueue.dead_letter returns has the dead letters of that
\* moment; the caller adding to, removing from or reordering it leaves the
\* queue's dead-letter list as it was, and nothing the queue or run does
\* later changes the caller's list.
C16_DeadLetterIsSnapshot ==
    /\ [][(~snapshot.taken /\ snapshot'.taken) => snapshot_items' = dead_letter]_vars
    /\ [][(snap_ops' # snap_ops) => dead_letter' = dead_letter]_vars
    /\ [][(snapshot.taken /\ snap_ops' = snap_ops) => snapshot_items' = snapshot_items]_vars

\* The caller changed a list that had one dead letter, a second job was
\* dead-lettered afterwards, and the two lists differ.
C16_Witness ==
    /\ snapshot.taken
    /\ snap_ops = 1
    /\ Len(dead_letter) = 2
    /\ Len(snapshot_items) = 2
    /\ snapshot_items[1] = dead_letter[1]
    /\ snapshot_items[2] # dead_letter[2]

(***************************************************************************)
(* CaseValidator (validation/rules.py) and the batch driver                *)
(* (scripts/run_batch.py).  Text is a sequence of characters, None and <<>>  *)
(* both being the empty sequence (both are falsy in Python); a date is its *)
(* ordinal, None when absent; a narrative is its length.                   *)
(***************************************************************************)
\* Days after MIN_ONSET_DATE covered by the onset dates tried.
DaySpan == 2

\* Longest batch of sample records handed to main.
MaxRecords == 2

\* Longest narrative the validator accepts.
NARRATIVE_LIMIT == 4000

LowerLetters == <<"a", "b", "c", "d", "e", "f", "g", "h", "i", "j", "k", "l", "m", "n", "o", "p", "q", "r", "s", "t", "u", "v", "w", "x", "y", "z">>
UpperLetters == <<"A", "B", "C", "D", "E", "F", "G", "H", "I", "J", "K", "L", "M", "N", "O", "P", "Q", "R", "S", "T", "U", "V", "W", "X", "Y", "Z">>

\* str.upper and str.lower, character by character.
upper_char(c) ==
    IF \E k \in 1..Len(LowerLetters) : LowerLetters[k] = c
      THEN UpperLetters[CHOOSE k \in 1..Len(LowerLetters) : LowerLetters[k] = c]
      ELSE c
lower_char(c) ==
    IF \E k \in 1..Len(UpperLetters) : UpperLetters[k] = c
      THEN LowerLetters[CHOOSE k \in 1..Len(UpperLetters) : UpperLetters[k] = c]
      ELSE c
upper(str) == [k \in 1..Len(str) |-> upper_char(str[k])]
lower(str) == [k \in 1..Len(str) |-> lower_char(str[k])]

REQUIRED_FIELDS == <<"case_id", "reaction_reported_term", "meddra_level", "onset_date">>
ALLOWED_MEDDRA_LEVELS == {<<"L", "L", "T">>, <<"P", "T">>}
RECOGNIZED_SERIOUSNESS == {<<"s", "e", "r", "i", "o", "u", "s">>, <<"n", "o", "n", "-", "s", "e", "r", "i", "o", "u", "s">>}

\* bool(getattr(record, field_name)) for the required fields.
truthy(record, field_name) ==
    CASE field_name = "onset_date" -> record.onset_date # None
      [] field_name = "meddra_level" -> record.meddra_level # <<>>
      [] OTHER -> record[field_name] # <<>>

\* The loop over REQUIRED_FIELDS.
required_errors(record) ==
    LET missing == SelectSeq(REQUIRED_FIELDS, LAMBDA f : ~truthy(record, f))
    IN [k \in 1..Len(missing) |-> <<"Missing required field", missing[k]>>]

\* Variant of the onset_date block with exclusive bounds.
onset_errors_exclusive(record, day) ==
    IF record.onset_date # None
      THEN (IF record.onset_date <= MIN_ONSET_DATE
              THEN <<<<"onset_date is earlier than", record.onset_date, MIN_ONSET_DATE>>>>
              ELSE <<>>)
           \o (IF record.onset_date >= day
                 THEN <<<<"onset_date is in the future", record.onset_date, day>>>>
                 ELSE <<>>)
      ELSE IF record.raw_payload.onset_date # <<>>
             THEN <<<<"onset_date could not be parsed", record.raw_payload.onset_date>>>>
             ELSE <<>>

\* The onset_date block: bounds of a parsed date, or an unparsed source string.
onset_errors(record, day) ==
    IF record.onset_date # None
      THEN (IF record.onset_date < MIN_ONSET_DATE
              THEN <<<<"onset_date is earlier than", record.onset_date, MIN_ONSET_DATE>>>>
              ELSE <<>>)
           \o (IF record.onset_date > day
                 THEN <<<<"onset_date is in the future", record.onset_date, day>>>>
                 ELSE <<>>)
      ELSE IF record.raw_payload.onset_date # <<>>
             THEN <<<<"onset_date could not be parsed", record.raw_payload.onset_date>>>>
             ELSE <<>>

level_errors(record) ==
    IF record.meddra_level # <<>> /\ upper(record.meddra_level) \notin ALLOWED_MEDDRA_LEVELS
      THEN <<<<"meddra_level must be one of", record.meddra_level>>>>
      ELSE <<>>

\* Variant of the pairing rule that only notices a text without a code.
together_errors_text_only(record) ==
    LET has_text == record.meddra_term_text # <<>>
        has_code == record.meddra_code # <<>>
    IN IF has_text /\ ~has_code
         THEN <<<<"meddra_term_text and meddra_code must be provided together">>>>
         ELSE <<>>

together_errors(record) ==
    LET has_text == record.meddra_term_text # <<>>
        has_code == record.meddra_code # <<>>
    IN IF has_text # has_code
         THEN <<<<"meddra_term_text and meddra_code must be provided together">>>>
         ELSE <<>>

narrative_errors(record) ==
    IF record.narrative # 0 /\ record.narrative > NARRATIVE_LIMIT
      THEN <<<<"narrative exceeds 4000 character limit">>>>
      ELSE <<>>

seriousness_warnings(record) ==
    LET seriousness_value == record.seriousness
    IN IF seriousness_value # <<>> /\ lower(seriousness_value) \notin RECOGNIZED_SERIOUSNESS
         THEN <<<<"seriousness not recognized", seriousness_value>>>>
         ELSE <<>>

\* ValidationResult(record=..., is_valid=not errors, errors=..., warnings=...)
ValidationResult(record, errors, warnings) ==
    [record |-> record, is_valid |-> errors = <<>>, errors |-> errors,
     warnings |-> warnings]

\* Variant of validate that lets warnings block validity.
validate_warnings_block(record, day) ==
    LET errors == required_errors(record) \o onset_errors(record, day)
                  \o level_errors(record) \o together_errors(record)
                  \o narrative_errors(record)
        warnings == seriousness_warnings(record)
    IN [record |-> record, is_valid |-> errors = <<>> /\ warnings = <<>>,
        errors |-> errors, warnings |-> warnings]

\* Variant of validate that stops at the first rule that reports an error.
validate_first_rule_only(record, day) ==
    LET rules == <<required_errors(record), onset_errors(record, day),
                   level_errors(record), together_errors(record),
                   narrative_errors(record)>>
        failing == SelectSeq(rules, LAMBDA e : e # <<>>)
        errors == IF failing = <<>> THEN <<>> ELSE SubSeq(failing[1], 1, 1)
    IN ValidationResult(record, errors, seriousness_warnings(record))

\* CaseValidator.validate with self.today = day.
validate(record, day) ==
    LET errors == required_errors(record) \o onset_errors(record, day)
                  \o level_errors(record) \o together_errors(record)
                  \o narrative_errors(record)
        warnings == seriousness_warnings(record)
    IN ValidationResult(record, errors, warnings)

\* CaseValidator.validate_many
validate_many(recs, day) == [i \in 1..Len(recs) |-> validate(recs[i], day)]

Unsure == <<"u", "n", "s", "u", "r", "e">>

\* The CaseRecords tried one at a time.
Records ==
    [case_id : {<<>>, <<"C", "1">>},
     reaction_reported_term : {<<>>, <<"r", "a", "s", "h">>},
     meddra_level : {<<>>, <<"L", "L", "T">>, <<"p", "t">>, <<"S", "O", "C">>},
     onset_date : {None} \cup ((MIN_ONSET_DATE - 1)..(MIN_ONSET_DATE + DaySpan)),
     raw_payload : [onset_date : {<<>>, <<"1", "9", "7", "0", "-", "1", "3", "-", "9", "9">>}],
     meddra_term_text : {<<>>, <<"R", "a", "s", "h">>},
     meddra_code : {<<>>, <<"1", "0", "0", "3", "7", "8", "4", "4">>},
     narrative : {0, NARRATIVE_LIMIT, NARRATIVE_LIMIT + 1},
     seriousness : {<<>>, <<"S", "e", "r", "i", "o", "u", "s">>, <<"n", "o", "n", "-", "s", "e", "r", "i", "o", "u", "s">>, Unsure}]

Todays == MIN_ONSET_DATE..(MIN_ONSET_DATE + DaySpan - 1)

ValidRecord ==
    [case_id |-> <<"C", "1">>, reaction_reported_term |-> <<"r", "a", "s", "h">>,
     meddra_level |-> <<"P", "T">>, onset_date |-> MIN_ONSET_DATE,
     raw_payload |-> [onset_date |-> <<"1", "9", "7", "0", "-", "0", "1", "-", "0", "1">>],
     meddra_term_text |-> <<>>, meddra_code |-> <<>>, narrative |-> 0,
     seriousness |-> <<>>]

\* The CaseRecords tried in longer batches: valid, valid with a warning,
\* invalid, invalid with a warning.
SampleRecords ==
    {ValidRecord,
     [ValidRecord EXCEPT !.seriousness = Unsure],
     [ValidRecord EXCEPT !.case_id = <<>>],
     [ValidRecord EXCEPT !.meddra_code = <<"1", "0", "0", "3", "7", "8", "4", "4">>, !.seriousness = Unsure]}

Batches ==
    {<<r>> : r \in Records}
      \cup UNION {[1..k -> SampleRecords] : k \in 0..MaxRecords}

\* main before validate_many: the records are loaded, nothing has run.
MainInit ==
    /\ records \in Batches
    /\ today \in Todays
    /\ results = <<>>
    /\ exit_code = NotExited
    /\ validation_results = <<>>
    /\ pc = "validate"
    /\ idx = 1
    /\ jobs = <<>>
    /\ queue = <<>>
    /\ dead_letter = <<>>
    /\ job = None
    /\ success_count = 0
    /\ retry_count = 0
    /\ failed_jobs = <<>>
    /\ validation_errors = <<>>
    /\ history = <<>>
    /\ requeued = [j \in 1..MaxRecords |-> 0]
    /\ ahead = [j \in 1..MaxRecords |-> {}]
    /\ snapshot = NoSnapshot
    /\ snap_ops = 0
    /\ payloads = <<>>
    /\ persisted = {}
    /\ given = NoQueue
    /\ carried = 0
    /\ runs = 1
    /\ cases = <<>>
    /\ submitted = <<>>

\* results = validator.validate_many(records); run receives them.
ValidateMany ==
    /\ pc = "validate"
    /\ results' = validate_many(records, today)
    /\ validation_results' = [i \in 1..Len(records) |-> results'[i].is_valid]
    /\ pc' = "enqueue"
    /\ UNCHANGED <<idx, jobs, queue, dead_letter, job, report, observed,
                   records, exit_code, today, snapshot, snap_ops, ext>>

\* Variant of the exit status that also fails the batch on validation errors.
exit_status_strict(rep) ==
    IF rep.failed_jobs # <<>> \/ rep.validation_errors # <<>> THEN 1 ELSE 0

\* The value main returns for a report.
exit_status(rep) == IF rep.failed_jobs # <<>> THEN 1 ELSE 0

\* The ProcessingReport run returned.
ProcessingReport ==
    [success_count |-> success_count, retry_count |-> retry_count,
     failed_jobs |-> failed_jobs, validation_errors |-> validation_errors]

\* main returns after run returned.
MainReturn ==
    /\ pc = "done"
    /\ exit_code' = exit_status(ProcessingReport)
    /\ pc' = "exited"
    /\ UNCHANGED <<validation_results, idx, jobs, queue, dead_letter, job,
                   report, observed, records, results, today, snapshot, snap_ops,
                   ext>>

MainNext ==
    \/ ValidateMany
    \/ Next
    \/ MainReturn

MainSpec == MainInit /\ [][MainNext]_vars

\* The validator alone, applied to the loaded records.
ValidatorSpec == MainInit /\ [][ValidateMany]_vars

\* C18: main's exit status is non-zero exactly when report.failed_jobs is
\* non-empty; validation errors and retries alone leave it zero.
C18_ExitStatus ==
    pc = "exited" =>
        /\ exit_code \in {0, 1}
        /\ (exit_code # 0) <=> (Len(failed_jobs) > 0)

\* Exit status 0 after a run with a validation error and a retry that ended
\* in success.
C18_Witness ==
    /\ pc = "exited"
    /\ exit_code = 0
    /\ validation_errors # <<>>
    /\ retry_count > 0
    /\ success_count > 0

\* The record without its seriousness.
WithoutSeriousness(record) == [record EXCEPT !.seriousness = <<>>]

\* C19: a result is valid exactly when it has no errors, and exactly when the
\* same record without its seriousness is valid; an otherwise valid record
\* with seriousness "unsure" is valid with one warning; every valid record
\* that enqueue_valid has passed is a job.
C19_WarningsNeverBlock ==
    pc # "validate" =>
        \A i \in 1..Len(records) :
            LET res == results[i]
                plain == validate(WithoutSeriousness(records[i]), today)
            IN /\ res.is_valid <=> (Len(res.errors) = 0)
               /\ res.is_valid <=> plain.is_valid
               /\ res.errors = plain.errors
               /\ validation_results[i] = res.is_valid
               /\ (records[i].seriousness = Unsure /\ Len(plain.errors) = 0) =>
                     (res.is_valid /\ Len(res.warnings) = 1)
               /\ (idx > i /\ res.is_valid) =>
                     (/\ \E j \in Enqueued : jobs[j].record = i
                      /\ i \notin Range(validation_errors))

\* A record with seriousness "unsure" was validated with one warning,
\* enqueued, and its job succeeded.
C19_Witness ==
    /\ pc = "exited"
    /\ \E j \in Enqueued :
         /\ records[jobs[j].record].seriousness = Unsure
         /\ Len(results[jobs[j].record].warnings) = 1
         /\ results[jobs[j].record].is_valid
         /\ Calls(j, "success") # {}

\* The error e is among the errors of the result.
Reports(res, e) == e \in Range(res.errors)

\* Number of rule conditions that hold of the record.
ViolationCount(record, day) ==
    Cardinality({f \in Range(REQUIRED_FIELDS) : ~truthy(record, f)})
    + (IF record.onset_date # None /\ record.onset_date < MIN_ONSET_DATE THEN 1 ELSE 0)
    + (IF record.onset_date # None /\ record.onset_date > day THEN 1 ELSE 0)
    + (IF record.onset_date = None /\ record.raw_payload.onset_date # <<>> THEN 1 ELSE 0)
    + (IF record.meddra_level # <<>> /\ upper(record.meddra_level) \notin ALLOWED_MEDDRA_LEVELS
         THEN 1 ELSE 0)
    + (IF (record.meddra_term_text = <<>>) # (record.meddra_code = <<>>) THEN 1 ELSE 0)
    + (IF record.narrative > 4000 THEN 1 ELSE 0)

\* C20: every rule is evaluated whatever the others found: each empty
\* required field is reported exactly once, every other rule reports its error
\* exactly when its own condition holds, the errors are as many as the
\* conditions that hold, and a record without onset_date and without
\* reaction_reported_term has at least two distinct errors.
C20_AllRulesCollected ==
    pc = "enqueue" =>
        \A i \in 1..Len(records) :
            LET rec == records[i]
                res == results[i]
            IN /\ Count(res.errors, <<"Missing required field", "case_id">>)
                    = IF rec.case_id = <<>> THEN 1 ELSE 0
               /\ Count(res.errors, <<"Missing required field", "reaction_reported_term">>)
                    = IF rec.reaction_reported_term = <<>> THEN 1 ELSE 0
               /\ Count(res.errors, <<"Missing required field", "meddra_level">>)
                    = IF rec.meddra_level = <<>> THEN 1 ELSE 0
               /\ Count(res.errors, <<"Missing required field", "onset_date">>)
                    = IF rec.onset_date = None THEN 1 ELSE 0
               /\ Reports(res, <<"meddra_level must be one of", rec.meddra_level>>)
                    <=> (rec.meddra_level # <<>>
                         /\ upper(rec.meddra_level) \notin ALLOWED_MEDDRA_LEVELS)
               /\ Reports(res, <<"meddra_term_text and meddra_code must be provided together">>)
                    <=> ((rec.meddra_term_text = <<>>) # (rec.meddra_code = <<>>))
               /\ Reports(res, <<"narrative exceeds 4000 character limit">>)
                    <=> rec.narrative > 4000
               /\ Reports(res, <<"onset_date could not be parsed", rec.raw_payload.onset_date>>)
                    <=> (rec.onset_date = None /\ rec.raw_payload.onset_date # <<>>)
               /\ Len(res.errors) = ViolationCount(rec, today)
               /\ Cardinality(Range(res.errors)) = Len(res.errors)
               /\ (rec.onset_date = None /\ rec.reaction_reported_term = <<>>) =>
                     Cardinality(Range(res.errors)) >= 2

\* A record without onset_date and reaction_reported_term that also breaks
\* the level, pairing and narrative rules: five errors or more.
C20_Witness ==
    /\ pc = "enqueue"
    /\ Len(records) = 1
    /\ records[1].onset_date = None
    /\ records[1].reaction_reported_term = <<>>
    /\ Reports(results[1], <<"Missing required field", "onset_date">>)
    /\ Reports(results[1], <<"Missing required field", "reaction_reported_term">>)
    /\ Reports(results[1], <<"meddra_term_text and meddra_code must be provided together">>)
    /\ Reports(results[1], <<"narrative exceeds 4000 character limit">>)
    /\ Len(results[1].errors) >= 5

(***************************************************************************)
(* Phases of run, queue length, attempt ceiling, messages.                 *)
(***************************************************************************)
\* C25: while enqueue_valid runs no job was handed to the worker, and once a
\* job is handed to the worker every validation result has been consumed and
\* is either a job or in validation_errors.
C25_EnqueueBeforeDispatch ==
    /\ pc = "enqueue" => (history = <<>> /\ job = None)
    /\ (pc = "worker" \/ history # <<>>) =>
         /\ idx = Len(validation_results) + 1
         /\ Len(jobs) + Len(validation_errors) = Len(validation_results)
         /\ \A i \in 1..Len(validation_results) :
              IF validation_results[i]
                THEN \E j \in Enqueued : jobs[j].record = i
                ELSE i \in Range(validation_errors)

\* The first dispatch of a three-result batch with one invalid result.
C25_Witness ==
    /\ pc = "worker"
    /\ history = <<>>
    /\ Len(validation_results) = 3
    /\ Len(validation_errors) = 1
    /\ Len(queue) = 1

\* C26: in the drain phase the queue, counting the job being processed, never
\* holds more than the jobs it held when the phase began; a dispatch removes
\* one job and the outcome puts back one (retry, not exhausted) or none.
C26_QueueNeverGrows ==
    /\ [](pc \in {"drain", "worker", "done"} =>
            Len(queue) + (IF pc = "worker" THEN 1 ELSE 0) <= Len(jobs))
    /\ [][(pc = "drain" /\ pc' = "worker") => Len(queue') = Len(queue) - 1]_vars
    /\ [][(pc = "worker" /\ pc' = "drain") =>
            Len(queue') = Len(queue)
                + (IF RetryStep /\ jobs'[job].attempts < jobs'[job].max_attempts
                     THEN 1 ELSE 0)]_vars

\* After one retry the queue is as long as at the start of the drain phase.
C26_Witness ==
    /\ pc = "drain"
    /\ history = <<<<1, "retry">>>>
    /\ Len(queue) = 3
    /\ Len(jobs) = 3

\* C27: queued jobs have attempts < max_attempts, dead-lettered jobs have
\* attempts = max_attempts, no job is dispatched more than max_attempts times
\* and a run makes at most max_attempts * (number of jobs) worker calls.
C27_AttemptCeiling ==
    /\ \A j \in Range(queue) : jobs[j].attempts < jobs[j].max_attempts
    /\ \A j \in Range(dead_letter) : jobs[j].attempts = jobs[j].max_attempts
    /\ \A j \in Enqueued :
         Cardinality(CallsOf(j)) + (IF pc = "worker" /\ job = j THEN 1 ELSE 0)
            <= jobs[j].max_attempts
    /\ Len(history) <= max_attempts * Len(jobs)

\* Three jobs, each called three times.
C27_Witness ==
    /\ pc = "done"
    /\ Len(jobs) = 3
    /\ Len(history) = 9
    /\ Len(dead_letter) = 3

\* C28: every job has as many error messages as attempts, so a dead-lettered
\* job has exactly max_attempts messages.
C28_MessagesEqualAttempts ==
    /\ \A j \in Enqueued : Len(jobs[j].error_messages) = jobs[j].attempts
    /\ \A j \in Range(dead_letter) :
         Len(jobs[j].error_messages) = jobs[j].max_attempts

\* A dead-lettered job with three messages, a queued job with two and a
\* faulted job with one.
C28_Witness ==
    /\ \E j \in Range(dead_letter) : Len(jobs[j].error_messages) = 3
    /\ \E j \in Range(queue) : Len(jobs[j].error_messages) = 2
    /\ \E j \in Range(failed_jobs) : Len(jobs[j].error_messages) = 1

\* C21: for a record with a parsed onset date d, validate reports "earlier
\* than" exactly when d < 1970-01-01 and "in the future" exactly when
\* d > today, two different errors, each once; so d = 1970-01-01 and d = today
\* give no bound error, and the record is valid exactly when d is in
\* [1970-01-01, today] and it is valid with the date 1970-01-01.
C21_OnsetBoundsInclusive ==
    pc = "enqueue" =>
        \A i \in 1..Len(records) :
            LET d == records[i].onset_date
                early == <<"onset_date is earlier than", d, MIN_ONSET_DATE>>
                future == <<"onset_date is in the future", d, today>>
                rest == validate([records[i] EXCEPT !.onset_date = MIN_ONSET_DATE], today)
            IN d # None =>
                 /\ Count(results[i].errors, early) = IF d < MIN_ONSET_DATE THEN 1 ELSE 0
                 /\ Count(results[i].errors, future) = IF d > today THEN 1 ELSE 0
                 /\ early # future
                 /\ results[i].is_valid
                      <=> (MIN_ONSET_DATE <= d /\ d <= today /\ rest.is_valid)

\* A record dated today, after 1970-01-01, is valid.
C21_Witness ==
    /\ pc = "enqueue"
    /\ Len(records) = 1
    /\ today > MIN_ONSET_DATE
    /\ records[1].onset_date = today
    /\ results[1].is_valid

\* C23: the 'must be provided together' error is reported once when exactly
\* one of meddra_term_text and meddra_code is non-empty and not at all when
\* both or neither are; a record with a text and no code is invalid.
C23_TextAndCodeTogether ==
    pc = "enqueue" =>
        \A i \in 1..Len(records) :
            LET text == records[i].meddra_term_text
                code == records[i].meddra_code
                exactly_one == (text # <<>> /\ code = <<>>) \/ (text = <<>> /\ code # <<>>)
            IN /\ Count(results[i].errors,
                        <<"meddra_term_text and meddra_code must be provided together">>)
                    = IF exactly_one THEN 1 ELSE 0
               /\ (text # <<>> /\ code = <<>>) => ~results[i].is_valid
               /\ (text = <<>> /\ code # <<>>) => ~results[i].is_valid

\* A code without a text is the record's only error.
C23_Witness ==
    /\ pc = "enqueue"
    /\ Len(records) = 1
    /\ records[1].meddra_term_text = <<>>
    /\ records[1].meddra_code # <<>>
    /\ results[1].errors = <<<<"meddra_term_text and meddra_code must be provided together">>>>

(***************************************************************************)
(* CaseRecord.from_dict, _clean, _parse_date and records_from_iterable     *)
(* (models.py).  A payload value is a sequence of characters; a missing    *)
(* key and "" are both the empty sequence.  strptime is computed as its    *)
(* regular expression and date construction do.                            *)
(***************************************************************************)
Digits == <<"0", "1", "2", "3", "4", "5", "6", "7", "8", "9">>

\* Characters str.strip() removes, among those tried.
Whitespace == {" ", "\t"}

IsDigit(c) == \E k \in 1..Len(Digits) : Digits[k] = c
NonZeroDigit(c) == IsDigit(c) /\ c # "0"
digit(c) == (CHOOSE k \in 1..Len(Digits) : Digits[k] = c) - 1

\* int(text) of a text of digits; strptime takes int() of a group, and int
\* ignores the leading space the day group may have.
RECURSIVE int(_)
int(text) ==
    LET digits == SelectSeq(text, IsDigit)
    IN IF digits = <<>>
         THEN 0
         ELSE 10 * int(SubSeq(digits, 1, Len(digits) - 1)) + digit(digits[Len(digits)])

\* str.strip()
strip(text) ==
    LET keep == {k \in 1..Len(text) : text[k] \notin Whitespace}
    IN IF keep = {}
         THEN <<>>
         ELSE SubSeq(text, CHOOSE k \in keep : \A l \in keep : k <= l,
                           CHOOSE k \in keep : \A l \in keep : l <= k)

\* _clean: the stripped text, None when nothing is left.
_clean(value) == strip(value)

\* The groups of strptime's regular expression for %Y, %m and %d.
match_Y(t) == Len(t) = 4 /\ \A k \in 1..4 : IsDigit(t[k])
match_m(t) ==
    \/ Len(t) = 2 /\ t[1] = "1" /\ t[2] \in {"0", "1", "2"}
    \/ Len(t) = 2 /\ t[1] = "0" /\ NonZeroDigit(t[2])
    \/ Len(t) = 1 /\ NonZeroDigit(t[1])
match_d(t) ==
    \/ Len(t) = 2 /\ t[1] = "3" /\ t[2] \in {"0", "1"}
    \/ Len(t) = 2 /\ t[1] \in {"1", "2"} /\ IsDigit(t[2])
    \/ Len(t) = 2 /\ t[1] = "0" /\ NonZeroDigit(t[2])
    \/ Len(t) = 1 /\ NonZeroDigit(t[1])
    \/ Len(t) = 2 /\ t[1] = " " /\ NonZeroDigit(t[2])

\* The three groups of a text with exactly two separators, <<>> otherwise
\* (no group matches a separator).
split(text, sep) ==
    LET at == {k \in 1..Len(text) : text[k] = sep}
        a == CHOOSE k \in at : \A l \in at : k <= l
        b == CHOOSE k \in at : \A l \in at : l <= k
    IN IF Cardinality(at) # 2
         THEN <<>>
         ELSE <<SubSeq(text, 1, a - 1), SubSeq(text, a + 1, b - 1),
                SubSeq(text, b + 1, Len(text))>>

\* datetime.date: leap years, month lengths and toordinal().
is_leap(y) == y % 4 = 0 /\ (y % 100 # 0 \/ y % 400 = 0)
days_in_month(y, m) ==
    IF m = 2 THEN (IF is_leap(y) THEN 29 ELSE 28)
    ELSE IF m \in {4, 6, 9, 11} THEN 30 ELSE 31
RECURSIVE days_before_month(_, _)
days_before_month(y, m) ==
    IF m = 1 THEN 0 ELSE days_before_month(y, m - 1) + days_in_month(y, m - 1)
days_before_year(y) ==
    (y - 1) * 365 + ((y - 1) \div 4) - ((y - 1) \div 100) + ((y - 1) \div 400)
toordinal(y, m, d) == days_before_year(y) + days_before_month(y, m) + d

\* The formats _parse_date tries, in order: "%Y-%m-%d", "%Y/%m/%d",
\* "%d-%m-%Y", "%m/%d/%Y".
FORMATS ==
    <<[sep |-> "-", fields |-> <<"Y", "m", "d">>],
      [sep |-> "/", fields |-> <<"Y", "m", "d">>],
      [sep |-> "-", fields |-> <<"d", "m", "Y">>],
      [sep |-> "/", fields |-> <<"m", "d", "Y">>]>>

\* datetime.strptime(value, fmt).date(), None standing for ValueError.
strptime(value, fmt) ==
    LET parts == split(value, fmt.sep)
        group(name) == parts[CHOOSE k \in 1..3 : fmt.fields[k] = name]
    IN IF parts = <<>>
         THEN None
         ELSE IF ~(match_Y(group("Y")) /\ match_m(group("m")) /\ match_d(group("d")))
           THEN None
           ELSE LET y == int(group("Y"))
                    m == int(group("m"))
                    d == int(group("d"))
                IN IF y >= 1 /\ d <= days_in_month(y, m)
                     THEN toordinal(y, m, d)
                     ELSE None

\* _parse_date: the first format that parses, None when none does.
_parse_date(value) ==
    LET parsing == SelectSeq(FORMATS, LAMBDA fmt : strptime(value, fmt) # None)
    IN IF parsing = <<>> THEN None ELSE strptime(value, parsing[1])

\* Variant of from_dict that keeps the cleaned onset_date in raw_payload.
from_dict_cleaned_payload(payload) ==
    LET onset_date_raw == _clean(payload.onset_date)
    IN [case_id |-> strip(payload.case_id),
        reaction_reported_term |-> _clean(payload.reaction_reported_term),
        meddra_level |-> _clean(payload.meddra_level),
        meddra_term_text |-> _clean(payload.meddra_term_text),
        meddra_code |-> _clean(payload.meddra_code),
        seriousness |-> _clean(payload.seriousness),
        narrative |-> Len(_clean(payload.narrative)),
        raw_payload |-> [payload EXCEPT !.onset_date = onset_date_raw],
        onset_date |-> IF onset_date_raw # <<>> THEN _parse_date(onset_date_raw) ELSE None]

\* CaseRecord.from_dict
from_dict(payload) ==
    LET onset_date_raw == _clean(payload.onset_date)
    IN [case_id |-> strip(payload.case_id),
        reaction_reported_term |-> _clean(payload.reaction_reported_term),
        meddra_level |-> _clean(payload.meddra_level),
        meddra_term_text |-> _clean(payload.meddra_term_text),
        meddra_code |-> _clean(payload.meddra_code),
        seriousness |-> _clean(payload.seriousness),
        narrative |-> Len(_clean(payload.narrative)),
        raw_payload |-> payload,
        onset_date |-> IF onset_date_raw # <<>> THEN _parse_date(onset_date_raw) ELSE None]

records_from_iterable(items) == [i \in 1..Len(items) |-> from_dict(items[i])]

\* The onset_date strings tried.
RawDates ==
    {<<>>,
     <<" ">>,
     <<"1", "9", "7", "0", "-", "0", "1", "-", "0", "1">>,
     <<"1", "9", "7", "0", "/", "0", "1", "/", "0", "2">>,
     <<"0", "2", "-", "0", "1", "-", "1", "9", "7", "0">>,
     <<"0", "1", "/", "0", "2", "/", "1", "9", "7", "0">>,
     <<"1", "9", "6", "9", "-", "1", "2", "-", "3", "1">>,
     <<"1", "9", "7", "0", "-", "1", "-", "3">>,
     <<"1", "9", "7", "0", "-", "0", "1", "-", " ", "1">>,
     <<" ", "1", "9", "7", "0", "-", "0", "1", "-", "0", "1", " ">>,
     <<"1", "9", "7", "0", "-", "1", "3", "-", "9", "9">>,
     <<"1", "9", "7", "0", "-", "0", "2", "-", "2", "9">>,
     <<"1", "9", "7", "2", "-", "0", "2", "-", "2", "9">>,
     <<"3", "1", "/", "1", "2", "/", "1", "9", "6", "9">>,
     <<"1", "9", "7", "0", "0", "1", "0", "1">>,
     <<"1", "9", "7", "0", "-", "0", "1", "-", "0", "1", "x">>,
     <<"0", "0", "0", "0", "-", "0", "1", "-", "0", "1">>,
     <<"a", "b", "c">>}

\* The raw dictionaries tried, one per batch.
Payloads ==
    [case_id : {<<>>, <<"C", "1">>, <<" ", "C", "1", " ">>},
     reaction_reported_term : {<<" ">>, <<"r", "a", "s", "h">>},
     meddra_level : {<<"P", "T">>},
     onset_date : RawDates,
     meddra_term_text : {<<>>},
     meddra_code : {<<>>},
     narrative : {<<"o", "k">>},
     seriousness : {<<" ", "S", "e", "r", "i", "o", "u", "s">>}]

\* main before records_from_iterable: the rows are read, nothing is parsed.
IngestInit ==
    /\ payloads \in {<<p>> : p \in Payloads}
    /\ records = <<>>
    /\ today \in Todays
    /\ results = <<>>
    /\ exit_code = NotExited
    /\ validation_results = <<>>
    /\ pc = "load"
    /\ idx = 1
    /\ jobs = <<>>
    /\ queue = <<>>
    /\ dead_letter = <<>>
    /\ job = None
    /\ success_count = 0
    /\ retry_count = 0
    /\ failed_jobs = <<>>
    /\ validation_errors = <<>>
    /\ history = <<>>
    /\ requeued = [j \in 1..MaxRecords |-> 0]
    /\ ahead = [j \in 1..MaxRecords |-> {}]
    /\ snapshot = NoSnapshot
    /\ snap_ops = 0
    /\ persisted = {}
    /\ given = NoQueue
    /\ carried = 0
    /\ runs = 1
    /\ cases = <<>>
    /\ submitted = <<>>

\* records = records_from_iterable(normalized)
RecordsFromIterable ==
    /\ pc = "load"
    /\ records' = records_from_iterable(payloads)
    /\ pc' = "validate"
    /\ UNCHANGED <<validation_results, idx, jobs, queue, dead_letter, job,
                   report, observed, results, exit_code, today, snapshot,
                   snap_ops, ext>>

IngestNext ==
    \/ RecordsFromIterable
    \/ ValidateMany

IngestSpec == IngestInit /\ [][IngestNext]_vars

\* C22: when the payload's onset_date is a non-empty string that from_dict
\* did not parse into a date, validate reports "could not be parsed" with
\* that string exactly once, an error other than "Missing required field:
\* onset_date", and the record is invalid; no such error is reported for an
\* empty string or a parsed date.
C22_UnparsedOnsetReported ==
    pc = "enqueue" =>
        \A i \in 1..Len(payloads) :
            LET raw == payloads[i].onset_date
                unparsed == <<"onset_date could not be parsed", raw>>
                missing == <<"Missing required field", "onset_date">>
            IN /\ (raw # <<>> /\ records[i].onset_date = None) =>
                     /\ Count(results[i].errors, unparsed) = 1
                     /\ unparsed # missing
                     /\ ~results[i].is_valid
               /\ (raw = <<>> \/ records[i].onset_date # None) =>
                     \A k \in 1..Len(results[i].errors) :
                         results[i].errors[k][1] # "onset_date could not be parsed"

\* "1970-13-99" is not a date: the record has the missing-field error and the
\* could-not-be-parsed error, and nothing else.
C22_Witness ==
    /\ pc = "enqueue"
    /\ payloads[1].onset_date = <<"1", "9", "7", "0", "-", "1", "3", "-", "9", "9">>
    /\ records[1].onset_date = None
    /\ results[1].errors
         = <<<<"Missing required field", "onset_date">>,
             <<"onset_date could not be parsed", payloads[1].onset_date>>>>

(***************************************************************************)
(* The persisted report (observability/reporting.py).  A dict is a         *)
(* function of its keys; a later entry of a dict comprehension with the    *)
(* same key replaces the earlier one.                                      *)
(***************************************************************************)
\* job.record.case_id of the JobItem j.
case_id_of(j) == records[jobs[j].record].case_id

validation_to_dict(result) ==
    [case_id |-> result.record.case_id, is_valid |-> result.is_valid,
     errors |-> result.errors, warnings |-> result.warnings]

report_to_dict(rep) ==
    [success_count |-> rep.success_count,
     retry_count |-> rep.retry_count,
     failed_jobs |-> [k \in 1..Len(rep.failed_jobs) |-> case_id_of(rep.failed_jobs[k])],
     validation_errors |-> [k \in 1..Len(rep.validation_errors) |->
                               validation_to_dict(results[rep.validation_errors[k]])]]

failed_jobs_to_dict(js) ==
    LET keys == {case_id_of(js[k]) : k \in 1..Len(js)}
        last(c) == CHOOSE k \in 1..Len(js) :
                       /\ case_id_of(js[k]) = c
                       /\ \A l \in 1..Len(js) : case_id_of(js[l]) = c => l <= k
    IN [c \in keys |-> [attempts |-> jobs[js[last(c)]].attempts,
                        errors |-> jobs[js[last(c)]].error_messages]]

\* The payload persist_report writes.
persist_report(rep) ==
    LET payload == report_to_dict(rep)
    IN [success_count |-> payload.success_count,
        retry_count |-> payload.retry_count,
        failed_jobs |-> payload.failed_jobs,
        validation_errors |-> payload.validation_errors,
        failed_job_details |-> failed_jobs_to_dict(rep.failed_jobs)]

\* main, given --report-json, persists the report run returned.
PersistReport ==
    /\ pc = "done"
    /\ persisted = {}
    /\ persisted' = {persist_report(ProcessingReport)}
    /\ UNCHANGED <<validation_results, pc, idx, jobs, queue, dead_letter, job,
                   report, observed, records, results, exit_code, today,
                   snapshot, snap_ops, payloads, given, carried, runs, cases,
                   submitted>>

ReportNext ==
    \/ MainNext
    \/ PersistReport

ReportSpec == MainInit /\ [][ReportNext]_vars

\* C24: the persisted report has, for every job of report.failed_jobs, its
\* case_id in failed_jobs and, under that case_id, the attempts and the
\* error_messages of that job, also when failed jobs share a case_id.
C24_FailedJobsSerialized ==
    \A p \in persisted :
        /\ Len(p.failed_jobs) = Len(failed_jobs)
        /\ \A k \in 1..Len(failed_jobs) :
               LET j == failed_jobs[k]
                   c == case_id_of(j)
               IN /\ p.failed_jobs[k] = c
                  /\ c \in DOMAIN p.failed_job_details
                  /\ p.failed_job_details[c].attempts = jobs[j].attempts
                  /\ p.failed_job_details[c].errors = jobs[j].error_messages

(***************************************************************************)
(* An orchestrator built on a queue the caller passes, and run called      *)
(* again on the same orchestrator (Orchestrator.__init__, run;             *)
(* JobQueue.__len__).                                                      *)
(***************************************************************************)
\* Most pending jobs, and most dead letters, of a queue passed to __init__.
MaxGiven == 1

\* Longest batch of one call of run on such an orchestrator.
MaxRerunBatch == 2

\* Most calls of run on one orchestrator.
MaxRuns == 2

\* A JobItem of an earlier batch that requeue has seen `attempts` times.
EarlierJob(attempts) ==
    [record |-> None, attempts |-> attempts, max_attempts |-> max_attempts,
     error_messages |-> [k \in 1..attempts |-> "worker requested retry"]]

\* The heaps of a queue with np pending jobs and nd dead letters.
EarlierJobs(np, nd) ==
    {pending \o [k \in 1..nd |-> EarlierJob(max_attempts)] :
        pending \in [1..np -> {EarlierJob(a) : a \in 0..(max_attempts - 1)}]}

\* JobQueue.__len__
queue_len(q) == Len(q.queue)

\* bool(queue) of the __init__ argument: None is falsy, and so is a JobQueue
\* whose __len__ is 0.
queue_truthy(q) == q.passed /\ queue_len(q) # 0

\* Before Orchestrator(worker, queue): the caller has a queue, or passes none.
RerunInit ==
    /\ \E np \in 0..MaxGiven, nd \in 0..MaxGiven, passed \in BOOLEAN :
         /\ jobs \in (IF passed THEN EarlierJobs(np, nd) ELSE {<<>>})
         /\ given = IF passed
                      THEN [passed |-> TRUE, queue |-> [k \in 1..np |-> k],
                            dead_letter |-> [k \in 1..nd |-> np + k]]
                      ELSE NoQueue
    /\ validation_results \in BoolSeqs(MaxRerunBatch)
    /\ pc = "construct"
    /\ idx = 1
    /\ queue = <<>>
    /\ dead_letter = <<>>
    /\ job = None
    /\ success_count = 0
    /\ retry_count = 0
    /\ failed_jobs = <<>>
    /\ validation_errors = <<>>
    /\ history = <<>>
    /\ requeued = [j \in 1..(2 * MaxGiven + MaxRuns * MaxRerunBatch) |-> 0]
    /\ ahead = [j \in 1..(2 * MaxGiven + MaxRuns * MaxRerunBatch) |-> {}]
    /\ records = <<>>
    /\ results = <<>>
    /\ exit_code = NotExited
    /\ today = MIN_ONSET_DATE
    /\ snapshot = NoSnapshot
    /\ snap_ops = 0
    /\ payloads = <<>>
    /\ persisted = {}
    /\ carried = 0
    /\ runs = 1
    /\ cases = <<>>
    /\ submitted = <<>>

\* Orchestrator.__init__: self.queue = queue or JobQueue(); then the first
\* call of run begins.
OrchestratorInit ==
    /\ pc = "construct"
    /\ queue' = IF queue_truthy(given) THEN given.queue ELSE <<>>
    /\ dead_letter' = IF queue_truthy(given) THEN given.dead_letter ELSE <<>>
    /\ carried' = Len(jobs)
    /\ pc' = "enqueue"
    /\ UNCHANGED <<validation_results, idx, jobs, job, report, observed,
                   records, results, exit_code, today, snapshot, snap_ops,
                   payloads, persisted, given, runs, cases, submitted>>

\* run is called again on the same orchestrator: a new report, the same queue.
RunAgain ==
    /\ pc = "done"
    /\ runs < MaxRuns
    /\ runs' = runs + 1
    /\ validation_results' \in BoolSeqs(MaxRerunBatch)
    /\ idx' = 1
    /\ job' = None
    /\ success_count' = 0
    /\ retry_count' = 0
    /\ failed_jobs' = <<>>
    /\ validation_errors' = <<>>
    /\ history' = <<>>
    /\ carried' = Len(jobs)
    /\ pc' = "enqueue"
    /\ UNCHANGED <<jobs, queue, dead_letter, requeued, ahead, records, results,
                   exit_code, today, snapshot, snap_ops, payloads, persisted,
                   given, cases, submitted>>

RerunNext ==
    \/ OrchestratorInit
    \/ Next
    \/ RunAgain

RerunSpec == RerunInit /\ [][RerunNext]_vars

\* C29: when run returns, every job that was dead-lettered before this call
\* of run (on the queue passed to the orchestrator, or in an earlier call) is
\* in the report's failed_jobs, and every job that was pending on the queue
\* passed to the orchestrator has been dispatched.
C29_EarlierJobsReported ==
    pc = "done" =>
        /\ \A j \in 1..carried : is_exhausted(jobs[j]) => j \in Range(failed_jobs)
        /\ runs = 1 =>
             \A j \in Range(given.queue) : \E k \in 1..Len(history) : history[k][1] = j

(***************************************************************************)
(* The mock case store (scripts/mock_server.py): the table cases of        *)
(* init_db and the handlers that write it.  The table is the sequence of   *)
(* its rows in rowid order; a JSON object is a function of its keys.       *)
(***************************************************************************)
\* Most case submissions the store has received since it was last emptied.
MaxSubmits == 3

\* The columns of cases other than case_id and raw_payload.
TEXT_COLUMNS ==
    {"reaction_reported_term", "meddra_level", "meddra_term_text", "meddra_code",
     "meddra_version", "onset_date", "seriousness", "suspect_drug", "dose_text",
     "outcome", "narrative"}

COLUMNS == {"case_id"} \cup TEXT_COLUMNS \cup {"raw_payload"}

\* payload.get(key): None (the empty text) when the key is missing.
get(payload, key) == IF key \in DOMAIN payload THEN payload[key] ELSE <<>>

\* json.dumps of a value, kept as the value it encodes.
json_dumps(value) == [json |-> value]

\* _normalise_payload: the row built from a submitted JSON object.
_normalise_payload(payload) ==
    LET raw_payload == IF "raw_payload" \in DOMAIN payload
                         THEN payload["raw_payload"]
                         ELSE payload
    IN [column \in COLUMNS |->
          CASE column = "case_id" -> strip(get(payload, "case_id"))
            [] column = "raw_payload" -> json_dumps(raw_payload)
            [] OTHER -> get(payload, column)]

\* Variant of the insert into a table that has no key: the row is added.
insert_without_key(table, row) == Append(table, row)

\* INSERT OR REPLACE INTO cases, case_id being the PRIMARY KEY: the row with
\* the same case_id is deleted and the new row is inserted.
insert_or_replace(table, row) ==
    Append(SelectSeq(table, LAMBDA r : r["case_id"] # row["case_id"]), row)

\* SELECT * FROM cases WHERE case_id = ?
select_by_case_id(table, case_id) == SelectSeq(table, LAMBDA r : r["case_id"] = case_id)

\* A complete JSON object for a case.
CasePayload(case_id, term) ==
    [column \in {"case_id"} \cup TEXT_COLUMNS |->
        CASE column = "case_id" -> case_id
          [] column = "reaction_reported_term" -> term
          [] column = "meddra_level" -> <<"P", "T">>
          [] column = "meddra_code" -> <<"1", "0">>
          [] OTHER -> <<>>]

\* The JSON objects submitted: complete ones, one without case_id and one
\* with nothing but its case_id.
CasePayloads ==
    {CasePayload(c, t) : c \in {<<"C", "1">>, <<" ", "C", "1">>, <<"C", "2">>},
                         t \in {<<"r", "a", "s", "h">>, <<"i", "t", "c", "h">>}}
      \cup {[reaction_reported_term |-> <<"r", "a", "s", "h">>],
            [case_id |-> <<"C", "2">>]}

\* The request bodies: JSON objects, and a body that is not JSON.
Bodies ==
    {[is_json |-> TRUE, payload |-> p] : p \in CasePayloads}
      \cup {[is_json |-> FALSE, payload |-> [case_id |-> <<>>]]}

\* run_server after init_db: the table exists and is empty.
StoreInit ==
    /\ cases = <<>>
    /\ submitted = <<>>
    /\ pc = "serving"
    /\ validation_results = <<>>
    /\ idx = 1
    /\ jobs = <<>>
    /\ queue = <<>>
    /\ dead_letter = <<>>
    /\ job = None
    /\ success_count = 0
    /\ retry_count = 0
    /\ failed_jobs = <<>>
    /\ validation_errors = <<>>
    /\ history = <<>>
    /\ requeued = <<>>
    /\ ahead = <<>>
    /\ records = <<>>
    /\ results = <<>>
    /\ exit_code = NotExited
    /\ today = MIN_ONSET_DATE
    /\ snapshot = NoSnapshot
    /\ snap_ops = 0
    /\ payloads = <<>>
    /\ persisted = {}
    /\ given = NoQueue
    /\ carried = 0
    /\ runs = 1

\* POST /api/cases: 400 for a body that is not JSON, else the row is stored.
_handle_create_case ==
    /\ pc = "serving"
    /\ Len(submitted) < MaxSubmits
    /\ \E body \in Bodies :
         IF body.is_json
           THEN /\ cases' = insert_or_replace(cases, _normalise_payload(body.payload))
                /\ submitted' = Append(submitted, body.payload)
           ELSE UNCHANGED <<cases, submitted>>
    /\ UNCHANGED <<validation_results, pc, idx, jobs, queue, dead_letter, job,
                   report, observed, records, results, exit_code, today,
                   snapshot, snap_ops, payloads, persisted, given, carried, runs>>

\* POST /api/reset: DELETE FROM cases.
_handle_reset ==
    /\ pc = "serving"
    /\ cases' = <<>>
    /\ submitted' = <<>>
    /\ UNCHANGED <<validation_results, pc, idx, jobs, queue, dead_letter, job,
                   report, observed, records, results, exit_code, today,
                   snapshot, snap_ops, payloads, persisted, given, carried, runs>>

StoreNext ==
    \/ _handle_create_case
    \/ _handle_reset

StoreSpec == StoreInit /\ [][StoreNext]_vars

\* The case_id under which the store keeps a submitted object.
StoredId(payload) == strip(get(payload, "case_id"))

\* The last submission with the same stored case_id as submission k.
LastFor(k) ==
    CHOOSE l \in 1..Len(submitted) :
        /\ StoredId(submitted[l]) = StoredId(submitted[k])
        /\ \A m \in 1..Len(submitted) :
               StoredId(submitted[m]) = StoredId(submitted[k]) => m <= l

\* C30: after any sequence of submissions no two rows have the same case_id,
\* there are as many rows as distinct case_ids submitted, and selecting by
\* the (stripped) case_id of a submitted case gives exactly one row, whose
\* columns hold the values of the most recent submission for that case_id.
C30_OneRowPerCaseLatestWins ==
    /\ \A a, b \in 1..Len(cases) : cases[a]["case_id"] = cases[b]["case_id"] => a = b
    /\ Len(cases) = Cardinality({StoredId(submitted[k]) : k \in 1..Len(submitted)})
    /\ \A k \in 1..Len(submitted) :
           LET rows == select_by_case_id(cases, StoredId(submitted[k]))
               latest == submitted[LastFor(k)]
           IN /\ Len(rows) = 1
              /\ \A column \in TEXT_COLUMNS : rows[1][column] = get(latest, column)

\* C1 was submitted with "rash", C2 once, then C1 again with "itch": two
\* rows, and the row of C1 says "itch".
C30_Witness ==
    /\ Len(submitted) = 3
    /\ StoredId(submitted[1]) = <<"C", "1">>
    /\ StoredId(submitted[3]) = <<"C", "1">>
    /\ StoredId(submitted[2]) = <<"C", "2">>
    /\ get(submitted[1], "reaction_reported_term") = <<"r", "a", "s", "h">>
    /\ get(submitted[3], "reaction_reported_term") = <<"i", "t", "c", "h">>
    /\ Len(cases) = 2
    /\ select_by_case_id(cases, <<"C", "1">>)[1]["reaction_reported_term"]
         = <<"i", "t", "c", "h">>

====
